---------------------------- MODULE Spec2Model ----------------------------
(***************************************************************************)
(* NetScout (Levii): the hotspot resolver and password-retrieval service   *)
(* of services/geminiService.ts and the view-model of App.tsx.             *)
(*                                                                         *)
(* An optional value (T | null, or an optional field read as a whole) is a *)
(* sequence of length at most one: <<>> is null/undefined, <<v>> is v.     *)
(* An optional field of an object is a field that is in the record's       *)
(* DOMAIN or not.                                                          *)
(***************************************************************************)
EXTENDS Integers, Sequences, FiniteSets, TLC

VARIABLES
    isScanning,        \* App.tsx:42
    hotspots,          \* App.tsx:43
    selectedHotspot,   \* App.tsx:44
    location,          \* App.tsx:45
    error,             \* App.tsx:46
    sortKey,           \* App.tsx:47
    isRetrieving,      \* App.tsx:48
    retrievalResult,   \* App.tsx:49
    mounted,           \* whether the mount effect (App.tsx:86-88) has run
    geoSupported,      \* navigator.geolocation is present (App.tsx:59)
    clock,             \* number of startScan calls so far; stands for Date.now()
    pendingLoc,        \* scans whose getCurrentPosition has not called back
    pendingRes,        \* scans awaiting findNearbyWiFi (App.tsx:71)
    pendingRetr,       \* hotspots whose retrievePasswordEthically is pending
    scanLog,           \* history: per scan, what the location request and the resolver did
    resultFrom,        \* history: the hotspot whose retrieval produced retrievalResult
    fnIn,              \* the argument of the last direct call of a service function
    fnOut              \* and what it returned

vars == <<isScanning, hotspots, selectedHotspot, location, error, sortKey,
          isRetrieving, retrievalResult, mounted, geoSupported, clock,
          pendingLoc, pendingRes, pendingRetr, scanLog, resultFrom,
          fnIn, fnOut>>

appVars == <<isScanning, hotspots, selectedHotspot, location, error, sortKey,
             isRetrieving, retrievalResult, mounted, geoSupported, clock,
             pendingLoc, pendingRes, pendingRetr, scanLog, resultFrom>>

Null == <<>>
Some(v) == <<v>>

(***************************************************************************)
(* Bounds of the model.                                                    *)
(***************************************************************************)
MaxScans == 2      \* startScan calls in one behaviour
MaxScanTextLen == 3  \* tokens in the response text of a scan
MaxTextLen == 4    \* tokens in the response text of a direct call of the resolver
MaxListLen == 3    \* hotspots in a list handed to the sort directly

(***************************************************************************)
(* geminiService.ts: the upstream response.                                *)
(* A response text is a sequence of tokens: "[" and "]", a run of prose,   *)
(* the JSON literal null, or a JSON object (a raw record).  Elements of an *)
(* array are juxtaposed; the separating commas are not modelled.           *)
(***************************************************************************)
LB == [t |-> "["]
RB == [t |-> "]"]
Prose == [t |-> "prose"]
JsonNull == [t |-> "null"]
Obj(item) == [t |-> "obj", v |-> item]

\* Raw records as the generative service may send them (any field may be missing).
ItemNear ==
    [name |-> "Blue Bottle", address |-> "1 Mint St", distanceValue |-> 100,
     type |-> "Cafe", password |-> "None", security |-> "Open"]
ItemNoDistance ==
    [name |-> "blue bottle", password |-> "latte123"]
ItemFar ==
    [name |-> "Transbay Hub", address |-> "425 Mission St", distanceValue |-> 1000,
     type |-> "Transit", password |-> "hunter2", security |-> "Open"]
ItemZero ==
    [distanceValue |-> 0, security |-> "WPA3"]

RawItems == {ItemNear, ItemNoDistance, ItemFar, ItemZero}

Tokens == {LB, RB, Prose, JsonNull} \cup {Obj(i) : i \in RawItems}

RECURSIVE SeqsUpTo(_, _)
SeqsUpTo(S, n) ==
    IF n = 0 THEN {<<>>}
    ELSE LET shorter == SeqsUpTo(S, n - 1)
         IN  shorter \cup {Append(s, x) : s \in {q \in shorter : Len(q) = n - 1}, x \in S}

\* generateContent either rejects or resolves to a response with a text.
ResponsesUpTo(n) ==
    {[kind |-> "throw"]} \cup {[kind |-> "text", text |-> t] : t \in SeqsUpTo(Tokens, n)}

ScanResponses == ResponsesUpTo(MaxScanTextLen)
Responses == ResponsesUpTo(MaxTextLen)

RandomRange == 500
\* values of Math.floor(Math.random() * 500) the model draws
RandomDraws == {0, RandomRange - 1}

(***************************************************************************)
(* text.match(/\[[\s\S]*\]/): the greedy match runs from the first "[" to  *)
(* the last "]" after it.                                                  *)
(***************************************************************************)
FirstLB(text) ==
    LET at == {i \in 1..Len(text) : text[i] = LB}
    IN  IF at = {} THEN 0 ELSE CHOOSE i \in at : \A j \in at : i <= j

LastRB(text) ==
    LET at == {i \in 1..Len(text) : text[i] = RB}
    IN  IF at = {} THEN 0 ELSE CHOOSE i \in at : \A j \in at : j <= i

jsonMatch(text) ==
    IF FirstLB(text) > 0 /\ LastRB(text) > FirstLB(text)
    THEN Some(SubSeq(text, FirstLB(text), LastRB(text)))
    ELSE Null

(***************************************************************************)
(* JSON.parse of the matched substring.  The elements from position i up   *)
(* to the closing "]"; a parsed value is an object, null or an array.      *)
(***************************************************************************)
RECURSIVE ParseElements(_, _, _)
ParseElements(toks, i, acc) ==
    IF i > Len(toks) THEN [ok |-> FALSE]
    ELSE CASE toks[i].t = "]" -> [ok |-> TRUE, val |-> acc, next |-> i + 1]
           [] toks[i].t = "obj" ->
                ParseElements(toks, i + 1, Append(acc, [k |-> "obj", v |-> toks[i].v]))
           [] toks[i].t = "null" ->
                ParseElements(toks, i + 1, Append(acc, [k |-> "null"]))
           [] toks[i].t = "[" ->
                LET inner == ParseElements(toks, i + 1, <<>>)
                IN  IF inner.ok
                    THEN ParseElements(toks, inner.next, Append(acc, [k |-> "array"]))
                    ELSE [ok |-> FALSE]
           [] OTHER -> [ok |-> FALSE]

\* [ok |-> TRUE, val |-> data], or [ok |-> FALSE] when JSON.parse throws
JSONparse(toks) ==
    LET r == ParseElements(toks, 2, <<>>)
    IN  IF r.ok /\ r.next = Len(toks) + 1 THEN [ok |-> TRUE, val |-> r.val]
        ELSE [ok |-> FALSE]

(***************************************************************************)
(* The map callback of geminiService.ts:51-61.                             *)
(***************************************************************************)
\* item.f, for f a string-valued field: Null when missing (an array has none)
Field(e, f) ==
    IF e.k = "obj" /\ f \in DOMAIN e.v THEN Some(e.v[f]) ELSE Null

\* JavaScript truthiness of an optional string
Truthy(opt) == opt # Null /\ opt[1] # ""

\* item.distanceValue || dflt
DistanceOr(e, dflt) ==
    IF e.k = "obj" /\ "distanceValue" \in DOMAIN e.v /\ e.v.distanceValue # 0
    THEN e.v.distanceValue
    ELSE dflt

DefaultSignalDistance == 100
MinSignal == 30
FullSignal == 100
SignalStep == 10

\* geminiService.ts:57
SignalFromDistance(e) ==
    LET s == FullSignal - (DistanceOr(e, DefaultSignalDistance) \div SignalStep)
    IN  IF s > MinSignal THEN s ELSE MinSignal

\* geminiService.ts:58
SecurityOf(e) ==
    IF Truthy(Field(e, "security")) THEN Field(e, "security")[1]
    ELSE IF Truthy(Field(e, "password")) /\ Field(e, "password")[1] # "None"
         THEN "WPA2" ELSE "Open"

\* geminiService.ts:59: the optional password
PasswordOf(e) ==
    IF Field(e, "password") = Some("None") THEN Null ELSE Field(e, "password")

WithPassword(h, opt) ==
    IF opt = Null THEN h ELSE [f \in DOMAIN h \cup {"password"} |->
                                 IF f = "password" THEN opt[1] ELSE h[f]]

\* index is 0-based as in the source; rnd is the pair of Math.random() draws
Normalize(e, index, now, rnd) ==
    WithPassword(
        [id |-> "wifi-" \o ToString(index) \o "-" \o ToString(now),
         name |-> IF Truthy(Field(e, "name")) THEN Field(e, "name")[1] ELSE "Unknown Hotspot",
         address |-> IF Truthy(Field(e, "address")) THEN Field(e, "address")[1] ELSE "Nearby",
         distance |-> ToString(DistanceOr(e, rnd[1])) \o "m",
         distanceValue |-> DistanceOr(e, rnd[2]),
         signalStrength |-> SignalFromDistance(e),
         security |-> SecurityOf(e),
         type |-> IF Truthy(Field(e, "type")) THEN Field(e, "type")[1] ELSE "Public Space"],
        PasswordOf(e))

\* geminiService.ts:68-72
FallbackSample ==
    << [id |-> "1", name |-> "Starbucks_Guest", address |-> "123 Main St",
        distance |-> "150m", distanceValue |-> 150, signalStrength |-> 92,
        security |-> "Public", password |-> "None (Web Login)", type |-> "Cafe"],
       [id |-> "2", name |-> "Library_Free_WiFi", address |-> "456 Library Ln",
        distance |-> "300m", distanceValue |-> 300, signalStrength |-> 85,
        security |-> "Open", type |-> "Library"],
       [id |-> "3", name |-> "DailyGrind_Secure", address |-> "789 Brew Blvd",
        distance |-> "450m", distanceValue |-> 450, signalStrength |-> 78,
        security |-> "WPA2", password |-> "coffee_lover", type |-> "Cafe"] >>

(***************************************************************************)
(* A completion is [c |-> "return", v |-> value], [c |-> "throw"], or      *)
(* [c |-> "normal"] for a block that ran to its end without returning.     *)
(***************************************************************************)
Return(v) == [c |-> "return", v |-> v]
Throw == [c |-> "throw"]
Normal == [c |-> "normal"]

\* geminiService.ts:48-62, the body of the inner try
ParseAndNormalize(text, now, rnd) ==
    LET m == jsonMatch(text)
    IN  IF m = Null THEN Normal
        ELSE LET data == JSONparse(m[1])
             IN  IF ~data.ok THEN Throw
                 ELSE IF \E i \in 1..Len(data.val) : data.val[i].k = "null" THEN Throw
                 ELSE Return([i \in 1..Len(data.val) |->
                                 Normalize(data.val[i], i - 1, now, rnd[i])])

\* geminiService.ts:47-65: the inner catch logs and goes on
InnerTry(text, now, rnd) ==
    LET r == ParseAndNormalize(text, now, rnd)
    IN  IF r.c = "throw" THEN Normal ELSE r

\* geminiService.ts:20-72, the body of the outer try
ResolveBody(response, now, rnd) ==
    IF response.kind = "throw" THEN Throw
    ELSE LET r == InnerTry(response.text, now, rnd)
         IN  IF r.c = "return" THEN r ELSE Return(FallbackSample)

\* the resolver without its outer catch
findNearbyWiFiNoCatch(response, now, rnd) == ResolveBody(response, now, rnd)

\* geminiService.ts:18-77
findNearbyWiFi(response, now, rnd) ==
    LET r == ResolveBody(response, now, rnd)
    IN  IF r.c = "throw" THEN Return(<<>>) ELSE r

\* the number of records the map callback runs on (it draws twice per record)
ItemCount(response) ==
    IF response.kind = "throw" THEN 0
    ELSE LET m == jsonMatch(response.text)
         IN  IF m = Null THEN 0
             ELSE LET data == JSONparse(m[1]) IN IF data.ok THEN Len(data.val) ELSE 0

RandomChoices(response) ==
    [1..ItemCount(response) -> RandomDraws \X RandomDraws]

(***************************************************************************)
(* geminiService.ts:79-99.  The two-second delay is the pending retrieval  *)
(* of the view-model; this is the decision made when it is over.           *)
(***************************************************************************)
PublicMsg == "This is a public network. No password required, but web authentication may be needed."
SharedMsg == "Password retrieved from community-shared database. Please use responsibly."
NotFoundMsg == "No community-shared password found for this private network. We do not support unauthorized access to private networks."
RetrieveFailedMsg == "Failed to retrieve password. Please try again."

HasPassword(hotspot) == "password" \in DOMAIN hotspot /\ hotspot.password # ""

\* the policy with the stored password looked at before the security class
retrievePasswordFirst(hotspot) ==
    IF HasPassword(hotspot)
    THEN Return([password |-> hotspot.password, message |-> SharedMsg])
    ELSE IF hotspot.security = "Open" \/ hotspot.security = "Public"
         THEN Return([message |-> PublicMsg])
         ELSE Return([message |-> NotFoundMsg])

retrievePasswordEthically(hotspot) ==
    IF hotspot.security = "Open" \/ hotspot.security = "Public"
    THEN Return([message |-> PublicMsg])
    ELSE IF HasPassword(hotspot)
         THEN Return([password |-> hotspot.password, message |-> SharedMsg])
         ELSE Return([message |-> NotFoundMsg])

(***************************************************************************)
(* App.tsx:90-96, sortedHotspots.                                          *)
(***************************************************************************)
SortKey == {"signalStrength", "distanceValue", "name"}

\* The place of a name in the collation String.prototype.localeCompare uses
\* (case decides only between names equal otherwise, lower case first).
CollationRank(name) ==
    CASE name = "blue bottle" -> 1
      [] name = "Blue Bottle" -> 2
      [] name = "DailyGrind_Secure" -> 3
      [] name = "Library_Free_WiFi" -> 4
      [] name = "Starbucks_Guest" -> 5
      [] name = "Transbay Hub" -> 6
      [] name = "Unknown Hotspot" -> 7

localeCompare(a, b) ==
    IF CollationRank(a) < CollationRank(b) THEN -1
    ELSE IF CollationRank(a) > CollationRank(b) THEN 1 ELSE 0

\* a.distanceValue || 0
DistanceValueOrZero(h) == IF "distanceValue" \in DOMAIN h THEN h.distanceValue ELSE 0

\* the comparator with the signal operands the other way round
CompareSignalAscending(a, b, key) ==
    IF key = "name" THEN localeCompare(a.name, b.name)
    ELSE IF key = "distanceValue" THEN DistanceValueOrZero(a) - DistanceValueOrZero(b)
    ELSE a.signalStrength - b.signalStrength

\* the comparator of App.tsx:91-95
Compare(a, b, key) ==
    IF key = "name" THEN localeCompare(a.name, b.name)
    ELSE IF key = "distanceValue" THEN DistanceValueOrZero(a) - DistanceValueOrZero(b)
    ELSE b.signalStrength - a.signalStrength

\* Array.prototype.sort is stable: x goes after every element not greater than it
InsertSorted(sorted, x, key) ==
    LET after == {i \in 1..Len(sorted) : Compare(sorted[i], x, key) > 0}
        p == IF after = {} THEN Len(sorted) + 1
             ELSE CHOOSE i \in after : \A j \in after : i <= j
    IN  SubSeq(sorted, 1, p - 1) \o <<x>> \o SubSeq(sorted, p, Len(sorted))

RECURSIVE SortFrom(_, _, _, _)
SortFrom(list, i, acc, key) ==
    IF i > Len(list) THEN acc
    ELSE SortFrom(list, i + 1, InsertSorted(acc, list[i], key), key)

\* [...list].sort(comparator)
Sorted(list, key) == SortFrom(list, 1, <<>>, key)

sortedHotspots == Sorted(hotspots, sortKey)

(***************************************************************************)
(* App.tsx: the view-model.                                                *)
(***************************************************************************)
UnsupportedMsg == "Geolocation is not supported by your browser."
DeniedMsg == "Location access denied. Please enable location to find nearby Wi-Fi."
FetchFailedMsg == "Failed to fetch nearby hotspots. Please try again."

\* the position the device reports
Position == [lat |-> 37, lng |-> -122]

Init ==
    /\ isScanning = FALSE
    /\ hotspots = <<>>
    /\ selectedHotspot = Null
    /\ location = Null
    /\ error = Null
    /\ sortKey = "signalStrength"
    /\ isRetrieving = FALSE
    /\ retrievalResult = Null
    /\ mounted = FALSE
    /\ geoSupported \in BOOLEAN
    /\ clock = 0
    /\ pendingLoc = {}
    /\ pendingRes = {}
    /\ pendingRetr = {}
    /\ scanLog = <<>>
    /\ resultFrom = Null
    /\ fnIn = Null
    /\ fnOut = Null

\* startScan without setSelectedHotspot(null)
startScanKeepsSelection ==
    /\ clock < MaxScans
    /\ clock' = clock + 1
    /\ hotspots' = <<>>
    /\ retrievalResult' = Null
    /\ resultFrom' = Null
    /\ IF geoSupported
       THEN /\ isScanning' = TRUE
            /\ error' = Null
            /\ pendingLoc' = pendingLoc \cup {clock + 1}
            /\ scanLog' = Append(scanLog, [geo |-> "pending", resolver |-> "notCalled",
                                           upstream |-> "none"])
       ELSE /\ isScanning' = FALSE
            /\ error' = Some(UnsupportedMsg)
            /\ pendingLoc' = pendingLoc
            /\ scanLog' = Append(scanLog, [geo |-> "unsupported", resolver |-> "notCalled",
                                           upstream |-> "none"])
    /\ UNCHANGED <<selectedHotspot, location, sortKey, isRetrieving, geoSupported,
                   pendingRes, pendingRetr, fnIn, fnOut>>

\* startScan without setSelectedHotspot(null) and setRetrievalResult(null)
startScanKeepsOutcome ==
    /\ clock < MaxScans
    /\ clock' = clock + 1
    /\ hotspots' = <<>>
    /\ IF geoSupported
       THEN /\ isScanning' = TRUE
            /\ error' = Null
            /\ pendingLoc' = pendingLoc \cup {clock + 1}
            /\ scanLog' = Append(scanLog, [geo |-> "pending", resolver |-> "notCalled",
                                           upstream |-> "none"])
       ELSE /\ isScanning' = FALSE
            /\ error' = Some(UnsupportedMsg)
            /\ pendingLoc' = pendingLoc
            /\ scanLog' = Append(scanLog, [geo |-> "unsupported", resolver |-> "notCalled",
                                           upstream |-> "none"])
    /\ UNCHANGED <<selectedHotspot, retrievalResult, resultFrom, location, sortKey,
                   isRetrieving, geoSupported, pendingRes, pendingRetr, fnIn, fnOut>>

\* startScan without setError(null)
startScanKeepsError ==
    /\ clock < MaxScans
    /\ clock' = clock + 1
    /\ hotspots' = <<>>
    /\ selectedHotspot' = Null
    /\ retrievalResult' = Null
    /\ resultFrom' = Null
    /\ IF geoSupported
       THEN /\ isScanning' = TRUE
            /\ error' = error
            /\ pendingLoc' = pendingLoc \cup {clock + 1}
            /\ scanLog' = Append(scanLog, [geo |-> "pending", resolver |-> "notCalled",
                                           upstream |-> "none"])
       ELSE /\ isScanning' = FALSE
            /\ error' = Some(UnsupportedMsg)
            /\ pendingLoc' = pendingLoc
            /\ scanLog' = Append(scanLog, [geo |-> "unsupported", resolver |-> "notCalled",
                                           upstream |-> "none"])
    /\ UNCHANGED <<location, sortKey, isRetrieving, geoSupported, pendingRes,
                   pendingRetr, fnIn, fnOut>>

\* App.tsx:52-84, up to the return of getCurrentPosition
startScan ==
    /\ clock < MaxScans
    /\ clock' = clock + 1
    /\ hotspots' = <<>>
    /\ selectedHotspot' = Null
    /\ retrievalResult' = Null
    /\ resultFrom' = Null
    /\ IF geoSupported
       THEN /\ isScanning' = TRUE
            /\ error' = Null
            /\ pendingLoc' = pendingLoc \cup {clock + 1}
            /\ scanLog' = Append(scanLog, [geo |-> "pending", resolver |-> "notCalled",
                                           upstream |-> "none"])
       ELSE /\ isScanning' = FALSE
            /\ error' = Some(UnsupportedMsg)
            /\ pendingLoc' = pendingLoc
            /\ scanLog' = Append(scanLog, [geo |-> "unsupported", resolver |-> "notCalled",
                                           upstream |-> "none"])
    /\ UNCHANGED <<location, sortKey, isRetrieving, geoSupported, pendingRes,
                   pendingRetr, fnIn, fnOut>>

\* App.tsx:86-88
Mount ==
    /\ ~mounted
    /\ mounted' = TRUE
    /\ startScan

\* the rescan button never disabled
RescanAlwaysEnabled == TRUE

\* App.tsx:146, disabled={isScanning}
RescanEnabled == ~isScanning

\* App.tsx:144-150
Rescan ==
    /\ mounted
    /\ RescanEnabled
    /\ startScan
    /\ UNCHANGED mounted

\* App.tsx:66-71, up to the await of findNearbyWiFi
LocationSuccess(s) ==
    /\ s \in pendingLoc
    /\ location' = Some(Position)
    /\ pendingLoc' = pendingLoc \ {s}
    /\ pendingRes' = pendingRes \cup {s}
    /\ scanLog' = [scanLog EXCEPT ![s].geo = "ok", ![s].resolver = "pending"]
    /\ UNCHANGED <<isScanning, hotspots, selectedHotspot, error, sortKey, isRetrieving,
                   retrievalResult, mounted, geoSupported, clock, pendingRetr,
                   resultFrom, fnIn, fnOut>>

\* the error callback without setIsScanning(false)
LocationErrorKeepsScanning(s) ==
    /\ s \in pendingLoc
    /\ error' = Some(DeniedMsg)
    /\ pendingLoc' = pendingLoc \ {s}
    /\ scanLog' = [scanLog EXCEPT ![s].geo = "denied"]
    /\ UNCHANGED <<isScanning, hotspots, selectedHotspot, location, sortKey, isRetrieving,
                   retrievalResult, mounted, geoSupported, clock, pendingRes,
                   pendingRetr, resultFrom, fnIn, fnOut>>

\* App.tsx:79-82
LocationError(s) ==
    /\ s \in pendingLoc
    /\ error' = Some(DeniedMsg)
    /\ isScanning' = FALSE
    /\ pendingLoc' = pendingLoc \ {s}
    /\ scanLog' = [scanLog EXCEPT ![s].geo = "denied"]
    /\ UNCHANGED <<hotspots, selectedHotspot, location, sortKey, isRetrieving,
                   retrievalResult, mounted, geoSupported, clock, pendingRes,
                   pendingRetr, resultFrom, fnIn, fnOut>>

\* App.tsx:71-77, from the settling of findNearbyWiFi on
ResolverSettles(s) ==
    /\ s \in pendingRes
    /\ \E response \in ScanResponses : \E rnd \in RandomChoices(response) :
         LET r == findNearbyWiFi(response, clock, rnd)
         IN  /\ IF r.c = "return"
                THEN hotspots' = r.v /\ error' = error
                ELSE hotspots' = hotspots /\ error' = Some(FetchFailedMsg)
             /\ scanLog' = [scanLog EXCEPT
                              ![s].resolver = IF r.c = "return" THEN "returned" ELSE "threw",
                              ![s].upstream = response.kind]
    /\ isScanning' = FALSE
    /\ pendingRes' = pendingRes \ {s}
    /\ UNCHANGED <<selectedHotspot, location, sortKey, isRetrieving, retrievalResult,
                   mounted, geoSupported, clock, pendingLoc, pendingRetr, resultFrom, fnIn, fnOut>>

\* App.tsx:220-233: the two sort buttons, shown with a populated list
SetSortKey(key) ==
    /\ mounted
    /\ ~isScanning
    /\ Len(hotspots) > 0
    /\ key \in {"signalStrength", "distanceValue"}
    /\ sortKey' = key
    /\ UNCHANGED <<isScanning, hotspots, selectedHotspot, location, error, isRetrieving,
                   retrievalResult, mounted, geoSupported, clock, pendingLoc, pendingRes,
                   pendingRetr, scanLog, resultFrom, fnIn, fnOut>>

IsSelected(spot) == selectedHotspot # Null /\ selectedHotspot[1].id = spot.id

\* App.tsx:258-261
SelectHotspot(i) ==
    /\ mounted
    /\ i \in 1..Len(sortedHotspots)
    /\ LET spot == sortedHotspots[i]
       IN  selectedHotspot' = IF IsSelected(spot) THEN Null ELSE Some(spot)
    /\ retrievalResult' = Null
    /\ resultFrom' = Null
    /\ UNCHANGED <<isScanning, hotspots, location, error, sortKey, isRetrieving, mounted,
                   geoSupported, clock, pendingLoc, pendingRes, pendingRetr, scanLog, fnIn, fnOut>>

\* App.tsx:335, disabled={isRetrieving}
RetrieveEnabled == ~isRetrieving

\* App.tsx:98-102 by the button of App.tsx:329-336, up to the await
RetrieveClick(i) ==
    /\ mounted
    /\ i \in 1..Len(sortedHotspots)
    /\ IsSelected(sortedHotspots[i])
    /\ retrievalResult = Null
    /\ RetrieveEnabled
    /\ isRetrieving' = TRUE
    /\ retrievalResult' = Null
    /\ resultFrom' = Null
    /\ pendingRetr' = pendingRetr \cup {sortedHotspots[i]}
    /\ UNCHANGED <<isScanning, hotspots, selectedHotspot, location, error, sortKey,
                   mounted, geoSupported, clock, pendingLoc, pendingRes, scanLog,
                   fnIn, fnOut>>

\* the continuation without the finally block that clears the flag
RetrievalSettlesKeepsFlag(spot) ==
    /\ spot \in pendingRetr
    /\ LET r == retrievePasswordEthically(spot)
       IN  retrievalResult' = IF r.c = "return" THEN Some(r.v)
                              ELSE Some([message |-> RetrieveFailedMsg])
    /\ resultFrom' = Some(spot)
    /\ pendingRetr' = pendingRetr \ {spot}
    /\ UNCHANGED <<isScanning, hotspots, selectedHotspot, location, error, sortKey,
                   isRetrieving, mounted, geoSupported, clock, pendingLoc, pendingRes,
                   scanLog, fnIn, fnOut>>

\* App.tsx:102-108, from the settling of retrievePasswordEthically on
RetrievalSettles(spot) ==
    /\ spot \in pendingRetr
    /\ LET r == retrievePasswordEthically(spot)
       IN  retrievalResult' = IF r.c = "return" THEN Some(r.v)
                              ELSE Some([message |-> RetrieveFailedMsg])
    /\ resultFrom' = Some(spot)
    /\ isRetrieving' = FALSE
    /\ pendingRetr' = pendingRetr \ {spot}
    /\ UNCHANGED <<isScanning, hotspots, selectedHotspot, location, error, sortKey,
                   mounted, geoSupported, clock, pendingLoc, pendingRes, scanLog, fnIn, fnOut>>

Next ==
    \/ Mount
    \/ Rescan
    \/ \E s \in pendingLoc : LocationSuccess(s)
    \/ \E s \in pendingLoc : LocationError(s)
    \/ \E s \in pendingRes : ResolverSettles(s)
    \/ \E key \in SortKey : SetSortKey(key)
    \/ \E i \in 1..Len(hotspots) : SelectHotspot(i)
    \/ \E i \in 1..Len(hotspots) : RetrieveClick(i)
    \/ \E spot \in pendingRetr : RetrievalSettles(spot)

Spec == Init /\ [][Next]_vars

\* the two-second timer of a pending retrieval fires
FairSpec == Spec /\ WF_vars(\E spot \in pendingRetr : RetrievalSettles(spot))

(***************************************************************************)
(* The service functions and the sort called directly, once, on any        *)
(* argument of their type.                                                 *)
(***************************************************************************)
\* one element of a parsed array, as ParseElements yields it
Element(item) == [k |-> "obj", v |-> item]

\* a WiFiHotspot whose optional distanceValue and password are missing
BareHotspot ==
    [id |-> "bare", name |-> "Unknown Hotspot", address |-> "Nearby", distance |-> "40m",
     signalStrength |-> 96, security |-> "Enterprise", type |-> "Other"]

SortHotspots ==
    {FallbackSample[i] : i \in 1..Len(FallbackSample)}
        \cup {Normalize(Element(item), 0, 1, <<0, 0>>) : item \in RawItems}
        \cup {Normalize([k |-> "array"], 0, 1, <<0, 0>>), BareHotspot}

Security == {"Open", "WPA2", "WPA3", "Public", "Enterprise"}

RetrievalHotspots ==
    {[BareHotspot EXCEPT !.security = sec] : sec \in Security}
        \cup {WithPassword([BareHotspot EXCEPT !.security = sec], Some(pw)) :
                sec \in Security, pw \in {"", "coffee_lover", "None (Web Login)"}}

CallFindNearbyWiFi ==
    /\ fnIn = Null
    /\ \E response \in Responses : \E now \in 1..MaxScans :
         \E rnd \in RandomChoices(response) :
            /\ fnIn' = Some([fn |-> "findNearbyWiFi", response |-> response,
                             now |-> now, rnd |-> rnd])
            /\ fnOut' = Some(findNearbyWiFi(response, now, rnd))
    /\ UNCHANGED appVars

CallRetrievePassword ==
    /\ fnIn = Null
    /\ \E hotspot \in RetrievalHotspots :
            /\ fnIn' = Some([fn |-> "retrievePasswordEthically", hotspot |-> hotspot])
            /\ fnOut' = Some(retrievePasswordEthically(hotspot))
    /\ UNCHANGED appVars

\* the memo of App.tsx:90-96 on a given list and key
CallSorted ==
    /\ fnIn = Null
    /\ \E list \in SeqsUpTo(SortHotspots, MaxListLen) : \E key \in SortKey :
            /\ hotspots' = list
            /\ sortKey' = key
            /\ fnIn' = Some([fn |-> "sortedHotspots", list |-> list, key |-> key])
            /\ fnOut' = Some(Sorted(list, key))
    /\ UNCHANGED <<isScanning, selectedHotspot, location, error, isRetrieving,
                   retrievalResult, mounted, geoSupported, clock, pendingLoc, pendingRes,
                   pendingRetr, scanLog, resultFrom>>

FnNext ==
    \/ CallFindNearbyWiFi
    \/ CallRetrievePassword
    \/ CallSorted

FnSpec == Init /\ [][FnNext]_vars

(***************************************************************************)
(* The claims.                                                             *)
(***************************************************************************)
ScansInFlight == pendingLoc \cup pendingRes

\* the location request of scan s failed, or there was no geolocation to ask
LocationFailed(s) == scanLog[s].geo \in {"denied", "unsupported"}

\* C1: every step that is a startScan call (the only steps that advance clock)
\* ends with the hotspot list empty and the selection and the retrieval outcome
\* null; with geolocation supported it also ends with the scanning flag set, the
\* error null and the location request of the new scan issued, no resolver call
\* having been issued by it.
C1_StartScanClears ==
    [][clock' # clock =>
         /\ hotspots' = <<>>
         /\ selectedHotspot' = Null
         /\ retrievalResult' = Null
         /\ pendingRes' = pendingRes
         /\ geoSupported => /\ isScanning'
                            /\ error' = Null
                            /\ pendingLoc' = pendingLoc \cup {clock'}]_vars

\* a rescan was started while a retrieval for a hotspot of the previous list was pending
C1_Witness ==
    /\ clock = 2
    /\ pendingLoc = {2}
    /\ pendingRetr # {}
    /\ hotspots = <<>>
    /\ selectedHotspot = Null
    /\ retrievalResult = Null

\* C2: in every reachable state at most one scan is in flight (awaiting its
\* location callback or its resolver call).
C2_OneScanInFlight == Cardinality(ScansInFlight) <= 1

\* the second scan is in flight at the resolver, the first having ended
C2_Witness ==
    /\ clock = 2
    /\ pendingRes = {2}
    /\ scanLog[1].resolver = "returned"

\* C3: a scan whose location request failed (or that found no geolocation) never
\* has the resolver invoked for it, and while it is the latest scan the hotspot
\* list is empty, the error is the fixed message of its failure and the scanning
\* flag is clear.
C3_LocationFailureEndsScan ==
    \A s \in 1..Len(scanLog) :
        LocationFailed(s) =>
            /\ scanLog[s].resolver = "notCalled"
            /\ s \notin pendingRes
            /\ s = clock =>
                 /\ hotspots = <<>>
                 /\ ~isScanning
                 /\ error = IF scanLog[s].geo = "denied" THEN Some(DeniedMsg)
                            ELSE Some(UnsupportedMsg)

\* the second scan was denied its location after the first had populated the list
C3_Witness ==
    /\ clock = 2
    /\ scanLog[2].geo = "denied"
    /\ scanLog[1].resolver = "returned"
    /\ location # Null

\* C4: the error message is never non-null while the hotspot list is non-empty.
C4_ErrorExcludesList == ~(error # Null /\ hotspots # <<>>)

\* a list was populated by the scan that followed a scan that ended in an error
C4_Witness ==
    /\ clock = 2
    /\ scanLog[1].geo = "denied"
    /\ hotspots # <<>>
    /\ error = Null

\* C5: when the call to the generative service fails, the scan ends with an
\* empty hotspot list and a non-null error message.
C5_UpstreamFailureShowsError ==
    (clock >= 1 /\ scanLog[clock].upstream = "throw") =>
        (hotspots = <<>> /\ error # Null)

ResolverCalled == fnIn # Null /\ fnIn[1].fn = "findNearbyWiFi"

\* the text holds no "[" with a "]" after it
NoBracketedArray(text) ==
    ~\E i, j \in 1..Len(text) : i < j /\ text[i] = LB /\ text[j] = RB

\* what JSON.parse makes of the bracketed part of a text that has one
ParsedData(text) == JSONparse(jsonMatch(text)[1])

DeserializationThrows(text) == ~NoBracketedArray(text) /\ ~ParsedData(text).ok

\* the map callback reads a property of null
NormalizationThrows(text) ==
    /\ ~NoBracketedArray(text)
    /\ ParsedData(text).ok
    /\ \E i \in 1..Len(ParsedData(text).val) : ParsedData(text).val[i].k = "null"

ParseFailure(response) ==
    /\ response.kind = "text"
    /\ \/ NoBracketedArray(response.text)
       \/ DeserializationThrows(response.text)
       \/ NormalizationThrows(response.text)

\* C6, as claimed: the resolver always returns; on a text with no bracketed
\* array, or whose deserialization or normalization throws, it returns the fixed
\* sample set; and it returns the empty sequence only when the upstream call throws.
C6_EmptyOnlyOnUpstreamThrow ==
    ResolverCalled =>
        LET response == fnIn[1].response
            out == fnOut[1]
        IN  /\ out.c = "return"
            /\ ParseFailure(response) => out.v = FallbackSample
            /\ out.v = <<>> => response.kind = "throw"

\* C6, amended: the resolver always returns; on a parse failure it returns the
\* fixed sample set; when the upstream call throws it returns the empty
\* sequence; and it returns the empty sequence only then or when the bracketed
\* part of the text deserializes to an empty array.
C6_EmptyOnThrowOrEmptyArray ==
    ResolverCalled =>
        LET response == fnIn[1].response
            out == fnOut[1]
        IN  /\ out.c = "return"
            /\ ParseFailure(response) => out.v = FallbackSample
            /\ response.kind = "throw" => out.v = <<>>
            /\ out.v = <<>> =>
                 \/ response.kind = "throw"
                 \/ /\ ~NoBracketedArray(response.text)
                    /\ ParsedData(response.text).ok
                    /\ ParsedData(response.text).val = <<>>

\* the resolver met an array holding null and returned the sample set
C6_Witness ==
    /\ ResolverCalled
    /\ fnIn[1].response = [kind |-> "text", text |-> <<Prose, LB, JsonNull, RB>>]
    /\ fnOut[1] = Return(FallbackSample)

\* C7: whenever the retrieval outcome is non-null, a hotspot is selected and the
\* outcome was computed by a retrieval started for that hotspot.
C7_OutcomeOfSelected ==
    retrievalResult # Null => (selectedHotspot # Null /\ resultFrom = selectedHotspot)

\* C8: while a retrieval is pending the Retrieving flag is set; the step that
\* ends a pending retrieval stores an outcome of that retrieval and clears the
\* flag; and a pending retrieval leads to a state with no retrieval pending,
\* the flag clear and an outcome stored.
C8_RetrievalCompletes ==
    /\ [](pendingRetr # {} => isRetrieving)
    /\ [][\A spot \in pendingRetr :
            spot \notin pendingRetr' =>
                /\ ~isRetrieving'
                /\ retrievalResult' # Null
                /\ resultFrom' = Some(spot)]_vars
    /\ (pendingRetr # {}) ~> (pendingRetr = {} /\ ~isRetrieving /\ retrievalResult # Null)

\* a retrieval has settled: its outcome is stored and the flag is clear
C8_Witness ==
    /\ pendingRetr = {}
    /\ ~isRetrieving
    /\ retrievalResult # Null
    /\ resultFrom = selectedHotspot

RetrievalCalled == fnIn # Null /\ fnIn[1].fn = "retrievePasswordEthically"

\* C9: for every hotspot, retrievePasswordEthically returns; for security Open
\* or Public the result has no password (whatever the hotspot stores) and the
\* public-network message; otherwise, when the hotspot carries a password (a
\* non-empty string), the result's password is that string; otherwise the
\* result has no password and the not-found message.  A password in the result
\* is always the one the hotspot carries.
C9_RetrievalPolicy ==
    RetrievalCalled =>
        LET h == fnIn[1].hotspot
            out == fnOut[1]
            carries == "password" \in DOMAIN h /\ h.password # ""
        IN  /\ out.c = "return"
            /\ h.security \in {"Open", "Public"} =>
                 out.v = [message |-> PublicMsg]
            /\ (h.security \notin {"Open", "Public"} /\ carries) =>
                 ("password" \in DOMAIN out.v /\ out.v.password = h.password)
            /\ (h.security \notin {"Open", "Public"} /\ ~carries) =>
                 out.v = [message |-> NotFoundMsg]
            /\ "password" \in DOMAIN out.v =>
                 ("password" \in DOMAIN h /\ out.v.password = h.password)

\* an Open hotspot that stores a password was given no password
C9_Witness ==
    /\ RetrievalCalled
    /\ fnIn[1].hotspot.security = "Open"
    /\ "password" \in DOMAIN fnIn[1].hotspot
    /\ fnIn[1].hotspot.password = "coffee_lover"
    /\ "password" \notin DOMAIN fnOut[1].v

SortCalled == fnIn # Null /\ fnIn[1].fn = "sortedHotspots"

Occurrences(list, h) == Cardinality({i \in 1..Len(list) : list[i] = h})

IsPermutation(a, b) ==
    /\ Len(a) = Len(b)
    /\ \A i \in 1..Len(b) : Occurrences(a, b[i]) = Occurrences(b, b[i])

MetersOrZero(h) == IF "distanceValue" \in DOMAIN h THEN h.distanceValue ELSE 0

InOrder(list, key) ==
    \A i \in 1..(Len(list) - 1) :
        CASE key = "name" -> CollationRank(list[i].name) <= CollationRank(list[i + 1].name)
          [] key = "distanceValue" -> MetersOrZero(list[i]) <= MetersOrZero(list[i + 1])
          [] key = "signalStrength" -> list[i].signalStrength >= list[i + 1].signalStrength

\* C10: for every hotspot list and sort key, sortedHotspots is a permutation of
\* the hotspot list, which is left as it was; it is non-decreasing by name for
\* key name, non-decreasing by distanceValue (a missing one counting as 0) for
\* key distanceValue and non-increasing by signalStrength for key
\* signalStrength; and sorting it again by the same key gives it back.
C10_SortedView ==
    SortCalled =>
        /\ hotspots = fnIn[1].list
        /\ fnOut[1] = sortedHotspots
        /\ IsPermutation(sortedHotspots, hotspots)
        /\ InOrder(sortedHotspots, sortKey)
        /\ Sorted(sortedHotspots, sortKey) = sortedHotspots

\* a list of three that is out of order by signal strength, and its sorted view
C10_Witness ==
    /\ SortCalled
    /\ sortKey = "signalStrength"
    /\ hotspots = <<FallbackSample[3], BareHotspot, FallbackSample[1]>>
    /\ sortedHotspots = <<BareHotspot, FallbackSample[1], FallbackSample[3]>>

\* the resolver was called on a text whose bracketed array it normalized
NormalizedCall ==
    /\ ResolverCalled
    /\ fnIn[1].response.kind = "text"
    /\ ~ParseFailure(fnIn[1].response)

\* max(30, 100 - floor(d / 10))
SignalOfMeters(d) == IF 100 - (d \div 10) > 30 THEN 100 - (d \div 10) ELSE 30

\* C11: every record the resolver normalizes that states its distance d in
\* meters gets the signal strength max(30, 100 - floor(d / 10)) (so 100 gives
\* 90, 0 gives 100 and 1000 gives 30), a value from 30 to 100, and of two
\* records of one response the farther one never gets the greater strength.
C11_SignalFromDistance ==
    NormalizedCall =>
        LET data == ParsedData(fnIn[1].response.text).val
            out == fnOut[1].v
            stated == {i \in 1..Len(data) :
                         data[i].k = "obj" /\ "distanceValue" \in DOMAIN data[i].v}
        IN  /\ \A i \in stated :
                 /\ out[i].signalStrength = SignalOfMeters(data[i].v.distanceValue)
                 /\ out[i].signalStrength \in 30..100
            /\ \A i, j \in stated :
                 data[i].v.distanceValue <= data[j].v.distanceValue =>
                     out[i].signalStrength >= out[j].signalStrength

\* C12: every hotspot the resolver returns (a normalized record, also one whose
\* source distance was missing or 0, or an entry of the sample set) has as its
\* distance string its numeric distanceValue followed by "m".
C12_DistanceStringAgrees ==
    ResolverCalled =>
        \A i \in 1..Len(fnOut[1].v) :
            fnOut[1].v[i].distance = ToString(fnOut[1].v[i].distanceValue) \o "m"

\* C13: in every reachable state a selected hotspot is an element of the
\* current hotspot list (the same record, so the same identifier), and there is
\* no selection while the list is empty or a scan is in flight.
C13_SelectionInList ==
    /\ selectedHotspot # Null =>
         \E i \in 1..Len(hotspots) : hotspots[i] = selectedHotspot[1]
    /\ (hotspots = <<>> \/ ScansInFlight # {}) => selectedHotspot = Null

\* a hotspot of the second scan's list is selected, the list shown by distance
C13_Witness ==
    /\ clock = 2
    /\ sortKey = "distanceValue"
    /\ selectedHotspot # Null
    /\ Len(hotspots) = 3
    /\ selectedHotspot[1] = hotspots[2]
    /\ scanLog[1].resolver = "returned"

=============================================================================
